---- MODULE Spec2Model ----
(***************************************************************************)
(* Model of src/s1.c, the S1 module core: the PMIC rail setters            *)
(* (s1_pmic_set_vaux, s1_pmic_set_vio, s1_pimc_fpga_vcore), the flash      *)
(* bring-up functions (s1_flash_wakeup, s1_flash_erase_all,                *)
(* s1_flash_is_busy) and s1_fpga_hold_reset.                               *)
(*                                                                         *)
(* Every public function is one action.  An action records the bus         *)
(* transactions and delays the call issued, in order, in txlog, its        *)
(* return value in ret, and applies its register writes to the PMIC        *)
(* register file regs.  The transport (nrfx_twim_xfer, nrfx_spim_xfer) is  *)
(* taken to succeed: APP_ERROR_CHECK is fatal otherwise.                   *)
(*                                                                         *)
(* A C float is modelled exactly: `voltage` is the integer n standing for  *)
(* the float32 value n / 2^24 (every float32 in [0.5, 8) and 0.0 is such a *)
(* value).  The comparisons against the double literals 0.8, 3.46 and 5.5  *)
(* and the truncating conversion to uint8_t are computed on n.             *)
(***************************************************************************)
EXTENDS Integers, Sequences, FiniteSets, TLC

VARIABLES
    regs,        \* PMIC register file (hardware), register -> byte
    flash,       \* flash device replies (hardware): [id, status]
    fpga_reset,  \* level of FPGA_RESET_PIN
    call,        \* the last call: [op, arg]
    ret,         \* what the last call returned
    txlog,       \* bus transactions and delays the last call issued, in order
    written,     \* PMIC registers the firmware has written so far
    conc         \* callers in progress, when calls are issued concurrently

vars == <<regs, flash, fpga_reset, call, ret, txlog, written, conc>>

---------------------------------------------------------------------------
(* Bounds of the model *)

\* Largest requested voltage, in hundredths of a volt (6.00 V).
MaxCv == 600

---------------------------------------------------------------------------
(* Constants of the program *)

PMIC_I2C_ADDRESS == \h48

REG_SSB1_V    == \h2B   \* FPGA core rail (SSB1) voltage setting
REG_SSB1_CTRL == \h2C   \* FPGA core rail control
REG_SSB2_V    == \h2D   \* auxiliary rail (SSB2) voltage setting
REG_SSB2_CTRL == \h2E   \* auxiliary rail control
REG_LDO0_V    == \h38   \* I/O rail (LDO0) voltage setting
REG_LDO0_CTRL == \h39   \* I/O rail control, the "companion" mode register

PmicRegs == {REG_SSB1_V, REG_SSB1_CTRL, REG_SSB2_V, REG_SSB2_CTRL,
             REG_LDO0_V, REG_LDO0_CTRL}

S1_SUCCESS         == "S1_SUCCESS"
S1_INVALID_SETTING == "S1_INVALID_SETTING"
S1_FLASH_ERROR     == "S1_FLASH_ERROR"
Void               == "void"

---------------------------------------------------------------------------
(* Bytes and bits *)

\* x & mask for a single-bit mask (mask a power of two).
BitSet(x, mask) == (x \div mask) % 2 = 1

ToUint8(x) == x % 256

---------------------------------------------------------------------------
(* float32 arguments *)

F32One == 2^24

\* The float32 nearest to cv/100 volts, as n with value n / 2^24: what a
\* caller's decimal literal becomes when passed as `float voltage`.
\* Defined for cv = 0 and 50 <= cv < 800.  The float32 spacing is 2^-24 in
\* [0.5,1), 2^-23 in [1,2), 2^-22 in [2,4), 2^-21 in [4,8).
F32Ulp(cv) == IF cv < 100 THEN 1 ELSE IF cv < 200 THEN 2 ELSE IF cv < 400 THEN 4 ELSE 8

F32OfCv(cv) ==
    LET a == cv \div 25
        b == cv % 25
        s == F32Ulp(cv)
    IN  a * 2^22 + s * ((2 * b * 2^22 + 25 * s) \div (50 * s))

\* Requested voltages: 0.00 V and 0.50 V .. MaxCv/100 V in steps of 10 mV.
Centivolts == {0} \cup (50 .. MaxCv)

\* The coarser grid used where calls are sequenced.
SeqCentivolts == {0, 50, 80, 100, 180, 330, 346, 350, 400, 550, MaxCv}

---------------------------------------------------------------------------
(* Comparisons of the float argument with the double literals.  The float  *)
(* is promoted to double exactly; 0.8 and 3.46 are not float32 values and  *)
(* no float32 lies between either literal and its nearest double, so each  *)
(* comparison is the comparison with the exact decimal.                    *)

\* voltage < 0.8       (n / 2^24 < 4/5)
LtMin(voltage) == 5 * voltage < 4 * F32One

\* voltage > 5.5       (n / 2^24 > 11/2)
GtAuxMax(voltage) == 2 * voltage > 11 * F32One

\* voltage > 3.46      (n / 2^24 > 173/50, i.e. n > floor(173 * 2^24 / 50))
GtIoMax(voltage) == voltage > (173 * 2^23) \div 25

\* voltage == 0.0
IsZero(voltage) == voltage = 0

---------------------------------------------------------------------------
(* DAC codes.  uint8_t s = (voltage - 0.8) / step converts the double      *)
(* quotient by truncation.  The exact quotient is (20n - 2^28) / 2^24 for  *)
(* step 0.05 and twice that for step 0.025.  The double 0.8 lies above     *)
(* 4/5 and the doubles 0.05, 0.025 above 1/20, 1/40, so where the exact    *)
(* quotient is a whole number the computed one falls just below it for     *)
(* voltage < 2.5 (above that the subtraction rounds the deficit away);     *)
(* everywhere else the computed and the exact quotient have the same       *)
(* integer part.  Compared with the compiled expression on every float32   *)
(* in [0.8, 6.0].                                                          *)

\* The quotient is exactly a whole number and is computed just below it.
FallsBelow(num, den, voltage) == num % den = 0 /\ 2 * voltage < 5 * F32One

TruncQuot(num, den, voltage) ==
    (num \div den) - (IF FallsBelow(num, den, voltage) THEN 1 ELSE 0)

\* The same quotient rounded to the nearest whole number instead.
RoundQuot(num, den) == (num + den \div 2) \div den

\* (voltage - 0.8) / 0.05, line 117
VauxSetting(voltage) == ToUint8(TruncQuot(20 * voltage - 16 * F32One, F32One, voltage))

\* (voltage - 0.8) / 0.025, line 146
VioSetting(voltage) == ToUint8(TruncQuot(20 * voltage - 16 * F32One, F32One \div 2, voltage))

---------------------------------------------------------------------------
(* Bus transactions *)

\* pmic_write_reg: one I2C transmit of the two bytes <<reg, value>>.
I2cWrite(reg, value) ==
    [kind |-> "i2c", addr |-> PMIC_I2C_ADDRESS, tx |-> <<reg, value>>, rx |-> <<>>, us |-> 0]

\* pmic_read_reg: one I2C transmit of the register, then receive of one byte.
I2cRead(reg, value) ==
    [kind |-> "i2c", addr |-> PMIC_I2C_ADDRESS, tx |-> <<reg>>, rx |-> <<value>>, us |-> 0]

\* flash_tx_rx: one SPI transfer sending tx and receiving rx.
SpiXfer(tx, rx) == [kind |-> "spi", addr |-> 0, tx |-> tx, rx |-> rx, us |-> 0]

\* NRFX_DELAY_US
Delay(us) == [kind |-> "delay", addr |-> 0, tx |-> <<>>, rx |-> <<>>, us |-> us]

IsPmicWrite(e) == e.kind = "i2c" /\ Len(e.tx) = 2 /\ Len(e.rx) = 0
IsPmicRead(e)  == e.kind = "i2c" /\ Len(e.tx) = 1 /\ Len(e.rx) = 1
IsSpi(e)       == e.kind = "spi"
IsDelay(e)     == e.kind = "delay"

\* Mutant: a read answered with the power-on value instead of the register's
\* present contents.
pmic_read_reg_Stale(hw, reg) == 0

\* The value the PMIC returns for a register: the register holds what was
\* last written to it.
pmic_read_reg(hw, reg) == hw[reg]

\* The register file after the writes of a transaction log, in order.
RECURSIVE ApplyLog(_, _)
ApplyLog(hw, log) ==
    IF log = <<>> THEN hw
    ELSE LET e == Head(log)
             hw1 == IF IsPmicWrite(e) THEN [hw EXCEPT ![e.tx[1]] = e.tx[2]] ELSE hw
         IN  ApplyLog(hw1, Tail(log))

-----------------------------------------------------------------------\* The registers a transaction log writes.
WrittenBy(log) == { log[i].tx[1] : i \in { j \in 1..Len(log) : IsPmicWrite(log[j]) } }

----
(* Power controller *)

\* Mutant: the range check of s1_pmic_set_vaux without its lower limit.
VauxRangeInvalid_NoLower(voltage) == GtAuxMax(voltage)

\* if (voltage < 0.8 || voltage > 5.5)
VauxRangeInvalid(voltage) == LtMin(voltage) \/ GtAuxMax(voltage)

\* Mutant: the I/O rail checked against the auxiliary rail's upper limit.
VioRangeInvalid_AuxLimit(voltage) == LtMin(voltage) \/ GtAuxMax(voltage)

\* if (voltage < 0.8 || voltage > 3.46)
VioRangeInvalid(voltage) == LtMin(voltage) \/ GtIoMax(voltage)

\* Mutant: the mode test on bit 4 instead of bit 3.
LswMode_WrongBit(mode) == BitSet(mode, 16)

\* pmic_read_reg(0x39) & 0x08
LswMode(mode) == BitSet(mode, 8)

\* s1_pmic_set_vaux: what it returns and the transactions it issues, given
\* the PMIC registers hw.  The mode register is read only when
\* voltage > 3.46 (the && short circuit), and before any write.
s1_pmic_set_vaux(hw, voltage) ==
    IF VauxRangeInvalid(voltage)
    THEN [ret |-> S1_INVALID_SETTING, log |-> <<>>]
    ELSE LET mode == pmic_read_reg(hw, REG_LDO0_CTRL)
             rd   == IF GtIoMax(voltage) THEN <<I2cRead(REG_LDO0_CTRL, mode)>> ELSE <<>>
         IN  IF GtIoMax(voltage) /\ LswMode(mode)
             THEN [ret |-> S1_INVALID_SETTING, log |-> rd]
             ELSE IF IsZero(voltage)
             THEN [ret |-> S1_SUCCESS, log |-> rd \o <<I2cWrite(REG_SSB2_CTRL, \h0C)>>]
             ELSE [ret |-> S1_SUCCESS,
                   log |-> rd \o <<I2cWrite(REG_SSB2_V, VauxSetting(voltage)),
                                   I2cWrite(REG_SSB2_CTRL, \h0E)>>]

\* s1_pmic_set_vio
s1_pmic_set_vio(hw, voltage) ==
    IF VioRangeInvalid(voltage)
    THEN [ret |-> S1_INVALID_SETTING, log |-> <<>>]
    ELSE IF IsZero(voltage)
    THEN [ret |-> S1_SUCCESS, log |-> <<I2cWrite(REG_LDO0_CTRL, \h0C)>>]
    ELSE [ret |-> S1_SUCCESS,
          log |-> <<I2cWrite(REG_LDO0_V, VioSetting(voltage)),
                    I2cWrite(REG_LDO0_CTRL, \h0E)>>]

\* Mutant: the core rail disabled without shutting the I/O rail down.
VcoreDisableSeq_NoIoShutdown == <<I2cWrite(REG_SSB1_CTRL, \h7C)>>

\* Mutant: the core rail disabled before the I/O rail is shut down.
VcoreDisableSeq_CoreFirst == <<I2cWrite(REG_SSB1_CTRL, \h7C), I2cWrite(REG_LDO0_CTRL, \h0C)>>

\* Mutant: the I/O rail shut down with mode value 0x04 (bit 3 clear).
VcoreDisableSeq_IoModeBitClear == <<I2cWrite(REG_LDO0_CTRL, \h04), I2cWrite(REG_SSB1_CTRL, \h7C)>>

\* The writes of s1_pimc_fpga_vcore(false) after the voltage write:
\* disable LDO0 (Vio), then disable SSB1 (Vfpga).
VcoreDisableSeq == <<I2cWrite(REG_LDO0_CTRL, \h0C), I2cWrite(REG_SSB1_CTRL, \h7C)>>

\* Mutant: the control registers written before the voltage register.
s1_pimc_fpga_vcore_CtrlFirst(hw, enable) ==
    [ret |-> Void,
     log |-> (IF enable THEN <<I2cWrite(REG_SSB1_CTRL, \h7E)>> ELSE VcoreDisableSeq) \o
             <<I2cWrite(REG_SSB1_V, \h08)>>]

\* s1_pimc_fpga_vcore
s1_pimc_fpga_vcore(hw, enable) ==
    [ret |-> Void,
     log |-> <<I2cWrite(REG_SSB1_V, \h08)>> \o
             (IF enable THEN <<I2cWrite(REG_SSB1_CTRL, \h7E)>> ELSE VcoreDisableSeq)]

SetVaux(voltage) ==
    LET r == s1_pmic_set_vaux(regs, voltage)
    IN  /\ regs' = ApplyLog(regs, r.log)
        /\ call' = [op |-> "s1_pmic_set_vaux", arg |-> voltage]
        /\ ret' = r.ret
        /\ txlog' = r.log
        /\ written' = written \cup WrittenBy(r.log)
        /\ UNCHANGED <<flash, fpga_reset, conc>>

SetVio(voltage) ==
    LET r == s1_pmic_set_vio(regs, voltage)
    IN  /\ regs' = ApplyLog(regs, r.log)
        /\ call' = [op |-> "s1_pmic_set_vio", arg |-> voltage]
        /\ ret' = r.ret
        /\ txlog' = r.log
        /\ written' = written \cup WrittenBy(r.log)
        /\ UNCHANGED <<flash, fpga_reset, conc>>

FpgaVcore(enable) ==
    LET r == s1_pimc_fpga_vcore(regs, enable)
    IN  /\ regs' = ApplyLog(regs, r.log)
        /\ call' = [op |-> "s1_pimc_fpga_vcore", arg |-> enable]
        /\ ret' = r.ret
        /\ txlog' = r.log
        /\ written' = written \cup WrittenBy(r.log)
        /\ UNCHANGED <<flash, fpga_reset, conc>>

---------------------------------------------------------------------------
(* Flash bring-up and FPGA reset *)

\* Opcodes of the flash device.
FLASH_WAKE         == \hAB
FLASH_RESET_ENABLE == \h66
FLASH_RESET        == \h99
FLASH_READ_ID      == \h9F
FLASH_WRITE_ENABLE == \h06
FLASH_CHIP_ERASE   == \h60
FLASH_READ_STATUS  == \h05
FLASH_CAPACITY_32M == \h16

\* Mutant: the reset sequence sent as one two-byte transfer.
ResetSeq_OneTransfer == <<SpiXfer(<<FLASH_RESET_ENABLE, FLASH_RESET>>, <<>>)>>

\* The reset sequence: reset_seq[0] and reset_seq[1], each in a transfer of
\* its own.
ResetSeq == <<SpiXfer(<<FLASH_RESET_ENABLE>>, <<>>), SpiXfer(<<FLASH_RESET>>, <<>>)>>

\* Mutant: the capacity taken from the third received byte.
CapacityOk_ThirdByte(cap_id_res) == cap_id_res[3] = FLASH_CAPACITY_32M

\* cap_id_res[3] == 0x16 (the fourth received byte)
CapacityOk(cap_id_res) == cap_id_res[4] = FLASH_CAPACITY_32M

\* Mutant: the identify transfer issued a second time on a capacity
\* mismatch.
s1_flash_wakeup_Retry(dev) ==
    [ret |-> IF CapacityOk(dev.id) THEN S1_SUCCESS ELSE S1_FLASH_ERROR,
     log |-> <<SpiXfer(<<FLASH_WAKE, 0, 0, 0>>, <<>>), Delay(3)>> \o
             ResetSeq \o
             <<Delay(30), SpiXfer(<<FLASH_READ_ID>>, dev.id)>> \o
             (IF CapacityOk(dev.id) THEN <<>> ELSE <<SpiXfer(<<FLASH_READ_ID>>, dev.id)>>)]

\* s1_flash_wakeup, given the device dev: wake, 3 us, the reset sequence,
\* 30 us, then the identify transfer receiving four bytes.
s1_flash_wakeup(dev) ==
    [ret |-> IF CapacityOk(dev.id) THEN S1_SUCCESS ELSE S1_FLASH_ERROR,
     log |-> <<SpiXfer(<<FLASH_WAKE, 0, 0, 0>>, <<>>), Delay(3)>> \o
             ResetSeq \o
             <<Delay(30), SpiXfer(<<FLASH_READ_ID>>, dev.id)>>]

\* Mutant: the erase sequence sent as one two-byte transfer.
EraseSeq_OneTransfer == <<SpiXfer(<<FLASH_WRITE_ENABLE, FLASH_CHIP_ERASE>>, <<>>)>>

\* The erase sequence: erase_seq[0] and erase_seq[1], each in a transfer of
\* its own, nothing received.
EraseSeq == <<SpiXfer(<<FLASH_WRITE_ENABLE>>, <<>>), SpiXfer(<<FLASH_CHIP_ERASE>>, <<>>)>>

\* s1_flash_erase_all
s1_flash_erase_all(dev) == [ret |-> Void, log |-> EraseSeq]

\* Mutant: the write-enable bit (bit 1) taken for the busy bit.
StatusBusy_WelBit(status_res) == BitSet(status_res[2], 2)

\* Mutant: the busy bit taken from the first received byte.
StatusBusy_FirstByte(status_res) == BitSet(status_res[1], 1)

\* status_res[1] & 0x01 (the second received byte)
StatusBusy(status_res) == BitSet(status_res[2], 1)

\* s1_flash_is_busy: one status read of two bytes; busy is bit 0 of the
\* second.
s1_flash_is_busy(dev) ==
    [ret |-> IF StatusBusy(dev.sr) THEN "true" ELSE "false",
     log |-> <<SpiXfer(<<FLASH_READ_STATUS>>, dev.sr)>>]

FlashWakeup ==
    LET r == s1_flash_wakeup(flash)
    IN  /\ call' = [op |-> "s1_flash_wakeup", arg |-> 0]
        /\ ret' = r.ret
        /\ txlog' = r.log
        /\ UNCHANGED <<regs, flash, fpga_reset, written, conc>>

FlashEraseAll ==
    LET r == s1_flash_erase_all(flash)
    IN  /\ call' = [op |-> "s1_flash_erase_all", arg |-> 0]
        /\ ret' = r.ret
        /\ txlog' = r.log
        /\ UNCHANGED <<regs, flash, fpga_reset, written, conc>>

FlashIsBusy ==
    LET r == s1_flash_is_busy(flash)
    IN  /\ call' = [op |-> "s1_flash_is_busy", arg |-> 0]
        /\ ret' = r.ret
        /\ txlog' = r.log
        /\ UNCHANGED <<regs, flash, fpga_reset, written, conc>>

\* Mutant: the reset pin toggled instead of cleared.
FpgaHoldReset_Toggle ==
    /\ fpga_reset' = 1 - fpga_reset
    /\ call' = [op |-> "s1_fpga_hold_reset", arg |-> 0]
    /\ ret' = Void
    /\ txlog' = <<>>
    /\ UNCHANGED <<regs, flash, written, conc>>

\* s1_fpga_hold_reset: nrf_gpio_pin_clear(FPGA_RESET_PIN)
FpgaHoldReset ==
    /\ fpga_reset' = 0
    /\ call' = [op |-> "s1_fpga_hold_reset", arg |-> 0]
    /\ ret' = Void
    /\ txlog' = <<>>
    /\ UNCHANGED <<regs, flash, written, conc>>

---------------------------------------------------------------------------
(* What the registers mean *)

\* A rail's control register enables it with bit 1: 0x0E and 0x7E enable,
\* 0x0C and 0x7C disable.
AuxEnabled(hw)  == BitSet(hw[REG_SSB2_CTRL], 2)
IoEnabled(hw)   == BitSet(hw[REG_LDO0_CTRL], 2)
CoreEnabled(hw) == BitSet(hw[REG_SSB1_CTRL], 2)

\* The voltage a setting register programs, in millivolts: 0.8 V plus one
\* step (50 mV, 25 mV) per code.
AuxMillivolts(hw) == 800 + 50 * hw[REG_SSB2_V]
IoMillivolts(hw)  == 800 + 25 * hw[REG_LDO0_V]

---------------------------------------------------------------------------
(* Hardware states *)

NoCall == [op |-> "none", arg |-> 0]

\* No caller in progress: calls are made one at a time.
NoCallers == <<>>

\* The flash device's replies: the four bytes it clocks out during an
\* identify transfer and the two during a status read.
FlashIdle == [id |-> <<0, 0, 0, \h16>>, sr |-> <<0, 0>>]

\* Values of the mode register 0x39 with the rail off (bit 1 clear).
ModeOffValues == {\h00, \h04, \h08, \h0C}

\* All rails off: control registers with the enable bit (bit 1) clear.
RailsOff == { [r \in PmicRegs |-> IF r = REG_LDO0_CTRL THEN m ELSE 0] : m \in ModeOffValues }

\* Arbitrary earlier register contents.
AnyRegs ==
    { [r \in PmicRegs |->
         CASE r = REG_LDO0_CTRL -> m
           [] r = REG_SSB2_CTRL -> a
           [] r = REG_SSB1_CTRL -> c
           [] r = REG_SSB2_V    -> IF a = 0 THEN 0 ELSE 64
           [] r = REG_LDO0_V    -> IF BitSet(m, 2) THEN 40 ELSE 0
           [] OTHER             -> IF c = 0 THEN 0 ELSE 8]
      : m \in ModeOffValues \cup {\h0E, \h02, \h10, \h16},
        a \in {\h00, \h0C, \h0E},
        c \in {\h00, \h7C, \h7E} }

---------------------------------------------------------------------------
(* Spec: sequences of power-controller calls, starting with all rails off *)

Init ==
    /\ regs \in RailsOff
    /\ flash = FlashIdle
    /\ fpga_reset = 1
    /\ call = NoCall
    /\ ret = "none"
    /\ txlog = <<>>
    /\ written = {}
    /\ conc = NoCallers

Next ==
    \/ \E cv \in SeqCentivolts : SetVaux(F32OfCv(cv))
    \/ \E cv \in SeqCentivolts : SetVio(F32OfCv(cv))
    \/ \E enable \in BOOLEAN : FpgaVcore(enable)

Spec == Init /\ [][Next]_vars

---------------------------------------------------------------------------
(* CallSpec: one power-controller call on arbitrary earlier register       *)
(* contents, over the fine grid of voltages                                *)

CallInit ==
    /\ regs \in AnyRegs
    /\ flash = FlashIdle
    /\ fpga_reset = 1
    /\ call = NoCall
    /\ ret = "none"
    /\ txlog = <<>>
    /\ written = {}
    /\ conc = NoCallers

CallNext ==
    \/ \E cv \in Centivolts : call = NoCall /\ SetVaux(F32OfCv(cv))
    \/ \E cv \in Centivolts : call = NoCall /\ SetVio(F32OfCv(cv))
    \/ \E enable \in BOOLEAN : call = NoCall /\ FpgaVcore(enable)

CallSpec == CallInit /\ [][CallNext]_vars

---------------------------------------------------------------------------
(* FlashSpec: sequences of flash and reset calls, over the replies the     *)
(* device may give                                                         *)

\* Bytes the device may clock out during an identify transfer.
FlashIdBytes == {\h00, \h16, \h20}

\* Bytes the device may clock out during a status read.
FlashStatusBytes == {\h00, \h01, \h02, \h03}

FlashInit ==
    /\ regs = [r \in PmicRegs |-> 0]
    /\ flash \in [id : [1..4 -> FlashIdBytes], sr : [1..2 -> FlashStatusBytes]]
    /\ fpga_reset \in {0, 1}
    /\ call = NoCall
    /\ ret = "none"
    /\ txlog = <<>>
    /\ written = {}
    /\ conc = NoCallers

FlashNext ==
    \/ FlashWakeup
    \/ FlashEraseAll
    \/ FlashIsBusy
    \/ FpgaHoldReset

FlashSpec == FlashInit /\ [][FlashNext]_vars

---------------------------------------------------------------------------
(* CoreSpec: sequences of calls of every operation, starting with all      *)
(* rails off                                                               *)

\* Devices: the capacity byte right or wrong, the status idle or busy.
CoreFlash ==
    { [id |-> i, sr |-> b] : i \in {<<\h00, \h00, \h00, \h16>>, <<\h00, \h16, \h16, \h20>>},
                             b \in {<<\h00, \h00>>, <<\h00, \h01>>} }

CoreInit ==
    /\ regs \in RailsOff
    /\ flash \in CoreFlash
    /\ fpga_reset \in {0, 1}
    /\ call = NoCall
    /\ ret = "none"
    /\ txlog = <<>>
    /\ written = {}
    /\ conc = NoCallers

CoreNext ==
    \/ \E cv \in SeqCentivolts : SetVaux(F32OfCv(cv))
    \/ \E cv \in SeqCentivolts : SetVio(F32OfCv(cv))
    \/ \E enable \in BOOLEAN : FpgaVcore(enable)
    \/ FlashWakeup
    \/ FlashEraseAll
    \/ FlashIsBusy
    \/ FpgaHoldReset

CoreSpec == CoreInit /\ [][CoreNext]_vars

---------------------------------------------------------------------------
(* DeviceSpec: the flash calls driving a flash device that follows the     *)
(* state machine {Asleep, Resetting, Ready, Erasing}.  Here `flash` is the  *)
(* device: [id, state, armed, erased], where armed records a first phase   *)
(* received ("reset" after 0x66, "wel" after 0x06) that the next command   *)
(* completes, and erased tells that the device has completed a chip erase. *)

DevStates == {"Asleep", "Resetting", "Ready", "Erasing"}

\* What the device answers: the identification only when Ready; the status
\* register as second byte, with bit 0 (busy) and bit 1 (write enable) set
\* while Erasing and bit 1 set once write enable has been received.
DevReplies(d) ==
    [id |-> IF d.state = "Ready" THEN d.id ELSE <<\h00, \h00, \h00, \h00>>,
     sr |-> <<\h00, CASE d.state = "Erasing" -> \h03
                      [] d.state = "Ready" /\ d.armed = "wel" -> \h02
                      [] OTHER -> \h00>>]

\* The device after one transfer or delay e.  Asleep it obeys only the wake
\* command; Resetting it is Ready again after 30 us; Erasing it obeys no
\* command; Ready it resets on 0x66 followed by 0x99 and starts erasing on
\* 0x06 followed by 0x60, each a transfer of one byte.
DevXfer(d, e) ==
    LET cmd == IF IsSpi(e) THEN e.tx[1] ELSE -1
        one == IsSpi(e) /\ Len(e.tx) = 1
    IN  CASE IsDelay(e) ->
               IF d.state = "Resetting" /\ e.us >= 30 THEN [d EXCEPT !.state = "Ready"] ELSE d
          [] d.state = "Asleep" ->
               IF cmd = FLASH_WAKE THEN [d EXCEPT !.state = "Ready"] ELSE d
          [] d.state = "Ready" ->
               IF one /\ cmd = FLASH_RESET_ENABLE THEN [d EXCEPT !.armed = "reset"]
               ELSE IF one /\ cmd = FLASH_RESET /\ d.armed = "reset"
                    THEN [d EXCEPT !.state = "Resetting", !.armed = "none"]
               ELSE IF one /\ cmd = FLASH_WRITE_ENABLE THEN [d EXCEPT !.armed = "wel"]
               ELSE IF one /\ cmd = FLASH_CHIP_ERASE /\ d.armed = "wel"
                    THEN [d EXCEPT !.state = "Erasing", !.armed = "none"]
               ELSE IF cmd \in {FLASH_READ_STATUS, FLASH_READ_ID} THEN d
               ELSE [d EXCEPT !.armed = IF d.armed = "reset" THEN "none" ELSE d.armed]
          [] OTHER -> d

\* The device after the transfers and delays of a log, in order.
RECURSIVE DevRun(_, _)
DevRun(d, log) == IF log = <<>> THEN d ELSE DevRun(DevXfer(d, Head(log)), Tail(log))

\* The caller is waiting for an erase: it has called s1_flash_erase_all and
\* s1_flash_is_busy has not yet returned false.
Polling ==
    \/ call.op = "s1_flash_erase_all"
    \/ call.op = "s1_flash_is_busy" /\ ret = "true"

\* s1_flash_wakeup on the device: the identify transfer is answered by the
\* device as the transfers before it have left it.
DevWakeup ==
    LET lead == s1_flash_wakeup(DevReplies(flash)).log
        d1   == DevRun(flash, SubSeq(lead, 1, Len(lead) - 1))
        r    == s1_flash_wakeup(DevReplies(d1))
    IN  /\ ~Polling
        /\ flash' = DevRun(flash, r.log)
        /\ call' = [op |-> "s1_flash_wakeup", arg |-> 0]
        /\ ret' = r.ret
        /\ txlog' = r.log
        /\ UNCHANGED <<regs, fpga_reset, written, conc>>

DevEraseAll ==
    LET r == s1_flash_erase_all(DevReplies(flash))
    IN  /\ ~Polling
        /\ flash' = DevRun(flash, r.log)
        /\ call' = [op |-> "s1_flash_erase_all", arg |-> 0]
        /\ ret' = r.ret
        /\ txlog' = r.log
        /\ UNCHANGED <<regs, fpga_reset, written, conc>>

DevIsBusy ==
    LET r == s1_flash_is_busy(DevReplies(flash))
    IN  /\ flash' = DevRun(flash, r.log)
        /\ call' = [op |-> "s1_flash_is_busy", arg |-> 0]
        /\ ret' = r.ret
        /\ txlog' = r.log
        /\ UNCHANGED <<regs, fpga_reset, written, conc>>

\* The device finishes its erase.
DevEraseDone ==
    /\ flash.state = "Erasing"
    /\ flash' = [flash EXCEPT !.state = "Ready", !.erased = TRUE]
    /\ UNCHANGED <<regs, fpga_reset, call, ret, txlog, written, conc>>

DevInit ==
    /\ regs \in RailsOff
    /\ flash \in [id : {<<\h00, \hEF, \h40, \h16>>, <<\h00, \hEF, \h40, \h15>>,
                        <<\h16, \h16, \h16, \h00>>},
                  state : {"Asleep", "Ready"},
                  armed : {"none"},
                  erased : {FALSE}]
    /\ fpga_reset \in {0, 1}
    /\ call = NoCall
    /\ ret = "none"
    /\ txlog = <<>>
    /\ written = {}
    /\ conc = NoCallers

DevNext ==
    \/ DevWakeup
    \/ DevEraseAll
    \/ DevIsBusy
    \/ DevEraseDone

\* The device finishes every erase it starts, and the caller keeps polling.
DeviceSpec == DevInit /\ [][DevNext]_vars /\ WF_vars(DevEraseDone) /\ WF_vars(DevIsBusy)

---------------------------------------------------------------------------
(* ConcSpec: two callers, each issuing its calls one bus transaction at a  *)
(* time; the transactions of the two interleave unless the callers         *)
(* serialize their calls.  Here conc = [serial, op, todo, done, ret, last, *)
(* hit]: whether the callers serialize; per caller the call in progress,   *)
(* the transactions it has yet to issue, those it has issued and the value *)
(* it will return; the caller of the last bus transaction; and the         *)
(* two-phase sequences a foreign transaction has fallen into so far.       *)

Callers == {1, 2}

ConcCalls ==
    { [op |-> "s1_pmic_set_vaux", arg |-> F32OfCv(400)],
      [op |-> "s1_pmic_set_vio", arg |-> F32OfCv(180)],
      [op |-> "s1_pmic_set_vio", arg |-> F32OfCv(400)],
      [op |-> "s1_pimc_fpga_vcore", arg |-> FALSE],
      [op |-> "s1_flash_wakeup", arg |-> 0],
      [op |-> "s1_flash_erase_all", arg |-> 0],
      [op |-> "s1_flash_is_busy", arg |-> 0] }

\* The function a call runs, on the hardware as the call finds it.
Invoke(c, hw, dev) ==
    CASE c.op = "s1_pmic_set_vaux"   -> s1_pmic_set_vaux(hw, c.arg)
      [] c.op = "s1_pmic_set_vio"    -> s1_pmic_set_vio(hw, c.arg)
      [] c.op = "s1_pimc_fpga_vcore" -> s1_pimc_fpga_vcore(hw, c.arg)
      [] c.op = "s1_flash_wakeup"    -> s1_flash_wakeup(dev)
      [] c.op = "s1_flash_erase_all" -> s1_flash_erase_all(dev)
      [] c.op = "s1_flash_is_busy"   -> s1_flash_is_busy(dev)

\* Mutant: a call that returns with its last transfer still to be issued, as
\* with a transfer that does not block.
CallReturned_Early(todo) == Len(todo) <= 1

\* The transfers block (nrfx_twim_xfer and nrfx_spim_xfer without a
\* handler): a call has returned when it has issued all its transactions.
CallReturned(todo) == todo = <<>>

\* The first phase of a two-phase sequence, by the sequence it opens: reset
\* enable, write enable, or a write to a voltage-setting register.
PhaseKind(e) ==
    CASE IsSpi(e) /\ e.tx = <<FLASH_RESET_ENABLE>> -> "reset"
      [] IsSpi(e) /\ e.tx = <<FLASH_WRITE_ENABLE>> -> "erase"
      [] IsPmicWrite(e) /\ e.tx[1] \in {REG_SSB1_V, REG_SSB2_V, REG_LDO0_V} -> "voltage"
      [] OTHER -> "none"

\* e2 is the second phase of the sequence e1 opens: the reset, the chip
\* erase, or the write to the control register of the same regulator.
IsPhase2Of(e2, e1) ==
    CASE PhaseKind(e1) = "reset"   -> IsSpi(e2) /\ e2.tx = <<FLASH_RESET>>
      [] PhaseKind(e1) = "erase"   -> IsSpi(e2) /\ e2.tx = <<FLASH_CHIP_ERASE>>
      [] PhaseKind(e1) = "voltage" -> IsPmicWrite(e2) /\ e2.tx[1] = e1.tx[1] + 1
      [] OTHER -> FALSE

\* The sequences a caller is in the middle of: first phase issued, second
\* phase yet to be issued.
OpenPhases(c, t) ==
    { PhaseKind(c.done[t][i]) :
        i \in { k \in 1..Len(c.done[t]) :
                  \E j \in 1..Len(c.todo[t]) : IsPhase2Of(c.todo[t][j], c.done[t][k]) } }

\* Caller t enters call c and issues its first transaction; a call that
\* issues none returns at once.  Serializing callers enter a call only when
\* no call is in progress.
ConcStart(t, c) ==
    LET r == Invoke(c, regs, flash)
    IN  /\ CallReturned(conc.todo[t])
        /\ conc.serial => \A u \in Callers : CallReturned(conc.todo[u])
        /\ call' = c
        /\ ret' = IF Len(r.log) <= 1 THEN r.ret ELSE "none"
        /\ IF r.log = <<>>
           THEN /\ txlog' = <<>>
                /\ conc' = [conc EXCEPT !.op[t] = c, !.done[t] = <<>>, !.ret[t] = r.ret]
                /\ UNCHANGED <<regs, flash, fpga_reset, written>>
           ELSE /\ regs' = ApplyLog(regs, <<r.log[1]>>)
                /\ written' = written \cup WrittenBy(<<r.log[1]>>)
                /\ txlog' = <<r.log[1]>>
                /\ conc' = [conc EXCEPT
                              !.op[t] = c,
                              !.ret[t] = r.ret,
                              !.todo[t] = Tail(r.log),
                              !.done[t] = <<r.log[1]>>,
                              !.last = t,
                              !.hit = @ \cup UNION { OpenPhases(conc, u) : u \in Callers \ {t} }]
                /\ UNCHANGED <<flash, fpga_reset>>

\* Caller t issues the next transaction of its call, and returns after the
\* last.
ConcStep(t) ==
    /\ conc.todo[t] # <<>>
    /\ LET e == Head(conc.todo[t])
       IN  /\ regs' = ApplyLog(regs, <<e>>)
           /\ written' = written \cup WrittenBy(<<e>>)
           /\ txlog' = <<e>>
           /\ conc' = [conc EXCEPT
                         !.todo[t] = Tail(@),
                         !.done[t] = Append(@, e),
                         !.last = IF IsDelay(e) THEN @ ELSE t,
                         !.hit = IF IsDelay(e) THEN @
                                 ELSE @ \cup UNION { OpenPhases(conc, u) : u \in Callers \ {t} }]
    /\ call' = conc.op[t]
    /\ ret' = IF Len(conc.todo[t]) = 1 THEN conc.ret[t] ELSE "none"
    /\ UNCHANGED <<flash, fpga_reset>>

ConcInit ==
    /\ regs \in RailsOff
    /\ flash = FlashIdle
    /\ fpga_reset = 1
    /\ call = NoCall
    /\ ret = "none"
    /\ txlog = <<>>
    /\ written = {}
    /\ conc \in { [serial |-> b,
                   op   |-> [t \in Callers |-> NoCall],
                   todo |-> [t \in Callers |-> <<>>],
                   done |-> [t \in Callers |-> <<>>],
                   ret  |-> [t \in Callers |-> "none"],
                   last |-> 0,
                   hit  |-> {}] : b \in BOOLEAN }

ConcNext ==
    \/ \E t \in Callers, c \in ConcCalls : ConcStart(t, c)
    \/ \E t \in Callers : ConcStep(t)

ConcSpec == ConcInit /\ [][ConcNext]_vars

---------------------------------------------------------------------------
(* Claims *)

IsCall(op) == call.op = op

\* The register writes of the last call, in order.
Writes == SelectSeq(txlog, IsPmicWrite)
Reads  == SelectSeq(txlog, IsPmicRead)

WritesTo(reg) == { i \in 1..Len(txlog) : IsPmicWrite(txlog[i]) /\ txlog[i].tx[1] = reg }

\* C1 as stated: the I/O rail is never enabled while the FPGA core rail is
\* disabled.
C1_IoNeverOnWithCoreOff == ~(IoEnabled(regs) /\ ~CoreEnabled(regs))

\* C1 amended: the coupling is enforced in the disable direction only.  A
\* call that leaves the core rail disabled, having found it enabled or
\* being s1_pimc_fpga_vcore, leaves the I/O rail disabled too.
C1_CoreOffTakesIoOff ==
    [][ (~CoreEnabled(regs') /\ (CoreEnabled(regs) \/ call'.op = "s1_pimc_fpga_vcore"))
            => ~IoEnabled(regs') ]_vars

\* C1 witness: s1_pimc_fpga_vcore(false) has run on an I/O rail that an
\* earlier s1_pmic_set_vio had programmed, and both rails are off.
C1_Witness ==
    /\ IsCall("s1_pimc_fpga_vcore") /\ call.arg = FALSE
    /\ regs[REG_LDO0_V] = VioSetting(F32OfCv(180))
    /\ ~IoEnabled(regs) /\ ~CoreEnabled(regs)

\* C2: s1_pimc_fpga_vcore(false) writes 0x39 <- 0x0C strictly before
\* 0x2C <- 0x7C, and no call writes a disabling value to 0x2C without an
\* earlier 0x39 <- 0x0C in the same call.
C2_IoShutdownBeforeCoreDisable ==
    /\ (IsCall("s1_pimc_fpga_vcore") /\ call.arg = FALSE) =>
          \E i, j \in 1..Len(txlog) :
              /\ i < j
              /\ txlog[i] = I2cWrite(REG_LDO0_CTRL, \h0C)
              /\ txlog[j] = I2cWrite(REG_SSB1_CTRL, \h7C)
    /\ \A j \in WritesTo(REG_SSB1_CTRL) :
          ~BitSet(txlog[j].tx[2], 2) =>
              \E i \in 1..(j - 1) : txlog[i] = I2cWrite(REG_LDO0_CTRL, \h0C)

\* C2 witness: s1_pimc_fpga_vcore(false) has issued its three writes and
\* the core rail control register holds 0x7C.
C2_Witness ==
    /\ IsCall("s1_pimc_fpga_vcore") /\ call.arg = FALSE
    /\ Len(txlog) = 3
    /\ regs[REG_SSB1_CTRL] = \h7C

\* C3: whenever the core rail is enabled the I/O rail is programmed to at
\* most 3.46 V; s1_pmic_set_vio rejects every voltage above 3.46 V without
\* a write, and only s1_pmic_set_vio writes the I/O setting register 0x38.
C3_IoAtMost3V46 ==
    /\ CoreEnabled(regs) => IoMillivolts(regs) <= 3460
    /\ (IsCall("s1_pmic_set_vio") /\ GtIoMax(call.arg)) =>
          (ret = S1_INVALID_SETTING /\ txlog = <<>>)
    /\ WritesTo(REG_LDO0_V) # {} => IsCall("s1_pmic_set_vio")

\* C3 witness: the core and the I/O rail are on, the I/O rail at the code
\* for 3.3 V, and a request for more than 3.46 V has just been rejected.
C3_Witness ==
    /\ CoreEnabled(regs) /\ IoEnabled(regs)
    /\ regs[REG_LDO0_V] = VioSetting(F32OfCv(330))
    /\ IsCall("s1_pmic_set_vio") /\ GtIoMax(call.arg)
    /\ ret = S1_INVALID_SETTING

\* C4 as stated: the auxiliary rail is never enabled above 3.46 V while the
\* mode register 0x39 has bit 3 set.
C4_AuxHighNeverInLsw ==
    ~(AuxEnabled(regs) /\ AuxMillivolts(regs) > 3460 /\ LswMode(regs[REG_LDO0_CTRL]))

\* C5: s1_pmic_set_vaux(v) with 3.46 < v <= 5.5, called while bit 3 of the
\* mode register is set, returns S1_INVALID_SETTING and writes no register.
C5_VauxHighInLswRejected ==
    [][ (/\ call'.op = "s1_pmic_set_vaux"
         /\ GtIoMax(call'.arg) /\ ~GtAuxMax(call'.arg)
         /\ BitSet(regs[REG_LDO0_CTRL], 8))
            => (/\ ret' = S1_INVALID_SETTING
                /\ SelectSeq(txlog', IsPmicWrite) = <<>>
                /\ regs' = regs) ]_vars

\* C5 witness: 4.0 V requested with the mode register reading 0x08.
C5_Witness ==
    /\ IsCall("s1_pmic_set_vaux") /\ call.arg = F32OfCv(400)
    /\ regs[REG_LDO0_CTRL] = \h08
    /\ Reads = <<I2cRead(REG_LDO0_CTRL, \h08)>>
    /\ ret = S1_INVALID_SETTING

\* C6 as stated: s1_pmic_set_vaux(0.0) returns success and issues exactly
\* one transaction, the shutdown write 0x2E <- 0x0C.
C6_VauxZeroShutsDown ==
    (IsCall("s1_pmic_set_vaux") /\ IsZero(call.arg)) =>
        (ret = S1_SUCCESS /\ txlog = <<I2cWrite(REG_SSB2_CTRL, \h0C)>>)

\* C7 as stated: s1_pmic_set_vio(0.0) returns success and issues exactly
\* one transaction, the shutdown write 0x39 <- 0x0C.
C7_VioZeroShutsDown ==
    (IsCall("s1_pmic_set_vio") /\ IsZero(call.arg)) =>
        (ret = S1_SUCCESS /\ txlog = <<I2cWrite(REG_LDO0_CTRL, \h0C)>>)

\* C8 as stated: for 0.8 <= v <= 5.5 with the mode register's bit 3 clear,
\* s1_pmic_set_vaux(v) succeeds and writes round((v - 0.8) / 0.05), which
\* fits in 8 bits, to 0x2D and then 0x0E to 0x2E.
C8_VauxWritesRoundedCode ==
    (/\ IsCall("s1_pmic_set_vaux")
     /\ ~LtMin(call.arg) /\ ~GtAuxMax(call.arg)
     /\ ~BitSet(regs[REG_LDO0_CTRL], 8))
        => LET code == RoundQuot(20 * call.arg - 16 * F32One, F32One)
           IN  /\ ret = S1_SUCCESS
               /\ code < 256
               /\ Writes = <<I2cWrite(REG_SSB2_V, code), I2cWrite(REG_SSB2_CTRL, \h0E)>>

\* C9 as stated: for 0.8 <= v <= 3.46, s1_pmic_set_vio(v) succeeds and
\* writes round((v - 0.8) / 0.025) to 0x38 and then 0x0E to 0x39.
C9_VioWritesRoundedCode ==
    (/\ IsCall("s1_pmic_set_vio")
     /\ ~LtMin(call.arg) /\ ~GtIoMax(call.arg))
        => LET code == RoundQuot(20 * call.arg - 16 * F32One, F32One \div 2)
           IN  /\ ret = S1_SUCCESS
               /\ txlog = <<I2cWrite(REG_LDO0_V, code), I2cWrite(REG_LDO0_CTRL, \h0E)>>

\* C10: s1_flash_wakeup issues exactly four flash transfers: the 4-byte
\* wake, at least 3 us later the reset 0x66 and the reset 0x99 as two
\* transfers, at least 30 us later the identify (send 0x9F, receive 4); it
\* returns success exactly when the fourth received byte is 0x16 and
\* S1_FLASH_ERROR otherwise.
C10_WakeupSequence ==
    IsCall("s1_flash_wakeup") =>
        /\ Len(txlog) = 6
        /\ Len(SelectSeq(txlog, IsSpi)) = 4
        /\ txlog[1] = SpiXfer(<<\hAB, 0, 0, 0>>, <<>>)
        /\ IsDelay(txlog[2]) /\ txlog[2].us >= 3
        /\ txlog[3] = SpiXfer(<<\h66>>, <<>>)
        /\ txlog[4] = SpiXfer(<<\h99>>, <<>>)
        /\ IsDelay(txlog[5]) /\ txlog[5].us >= 30
        /\ IsSpi(txlog[6]) /\ txlog[6].tx = <<\h9F>> /\ Len(txlog[6].rx) = 4
        /\ txlog[6].rx = flash.id
        /\ (ret = S1_SUCCESS) <=> (txlog[6].rx[4] = \h16)
        /\ ret \in {S1_SUCCESS, S1_FLASH_ERROR}

\* C10 witness: the identify transfer received 0x20 as its fourth byte (and
\* 0x16 as its third) and the call returned S1_FLASH_ERROR.
C10_Witness ==
    /\ IsCall("s1_flash_wakeup")
    /\ Len(txlog) = 6
    /\ txlog[6].rx = <<0, 0, \h16, \h20>>
    /\ ret = S1_FLASH_ERROR

\* C11: s1_flash_is_busy issues exactly one transfer, the status read (send
\* 0x05, receive 2 bytes), and returns true exactly when bit 0 of the second
\* received byte is set; it changes no hardware state, and a call repeated
\* on the same hardware state returns the same value.
C11_IsBusyReadsStatusBit ==
    [][ call'.op = "s1_flash_is_busy" =>
          /\ Len(txlog') = 1
          /\ txlog'[1] = SpiXfer(<<\h05>>, flash.sr)
          /\ Len(txlog'[1].rx) = 2
          /\ (ret' = "true") <=> (txlog'[1].rx[2] % 2 = 1)
          /\ ret' \in {"true", "false"}
          /\ flash' = flash /\ regs' = regs /\ fpga_reset' = fpga_reset
          /\ call.op = "s1_flash_is_busy" => ret' = ret ]_vars

\* C11 witness: the status read received <<0x01, 0x02>> (bit 0 set in the
\* first byte only) and the call returned false.
C11_Witness ==
    /\ IsCall("s1_flash_is_busy")
    /\ txlog = <<SpiXfer(<<\h05>>, <<\h01, \h02>>)>>
    /\ ret = "false"

\* C12: s1_flash_erase_all issues exactly two transfers, each one byte with
\* nothing received: 0x06, then 0x60; it issues no status read.
C12_EraseAllTwoTransfers ==
    IsCall("s1_flash_erase_all") =>
        /\ txlog = <<SpiXfer(<<\h06>>, <<>>), SpiXfer(<<\h60>>, <<>>)>>
        /\ \A i \in 1..Len(txlog) :
              /\ IsSpi(txlog[i])
              /\ Len(txlog[i].tx) = 1 /\ Len(txlog[i].rx) = 0
              /\ txlog[i].tx[1] # \h05
        /\ ret = Void

\* C12 witness: s1_flash_erase_all has run on a device whose status register
\* reads busy, and issued its two transfers.
C12_Witness ==
    /\ IsCall("s1_flash_erase_all")
    /\ Len(txlog) = 2
    /\ flash.sr[2] = \h01

\* The register file after the first k transactions of a call that started
\* on hw.
After(hw, log, k) == ApplyLog(hw, SubSeq(log, 1, k))

\* C13: every call of s1_pimc_fpga_vcore, enabling or disabling, writes
\* 0x2B <- 0x08 first, before any control-register write; so the core rail
\* is never enabled at a setting other than 1.2 V (code 8), neither after a
\* call nor between two transactions of a call.
C13_CoreVoltagePinnedFirst ==
    [][ /\ call'.op = "s1_pimc_fpga_vcore" =>
              /\ txlog'[1] = I2cWrite(\h2B, \h08)
              /\ \A i \in 1..Len(txlog') :
                    txlog'[i].tx[1] \in {\h2C, \h2E, \h39} => i > 1
        /\ \A k \in 0..Len(txlog') :
              LET h == After(regs, txlog', k)
              IN  CoreEnabled(h) => 800 + 50 * h[\h2B] = 1200 ]_vars

\* C13 witness: the core rail has been enabled, at code 8, by a call that
\* wrote the voltage register and then the control register.
C13_Witness ==
    /\ IsCall("s1_pimc_fpga_vcore") /\ call.arg = TRUE
    /\ txlog = <<I2cWrite(\h2B, \h08), I2cWrite(\h2C, \h7E)>>
    /\ CoreEnabled(regs)

\* C16: for an out-of-range voltage (s1_pmic_set_vaux with v > 5.5 or
\* 0 < v < 0.8, s1_pmic_set_vio with v > 3.46 or 0 < v < 0.8) the setter
\* returns S1_INVALID_SETTING, issues no bus transaction, read or write, and
\* leaves every PMIC register unchanged.
C16_OutOfRangeTouchesNothing ==
    [][ LET v == call'.arg
            rejected == /\ ret' = S1_INVALID_SETTING
                        /\ txlog' = <<>>
                        /\ regs' = regs
        IN  /\ (call'.op = "s1_pmic_set_vaux"
                  /\ (GtAuxMax(v) \/ (LtMin(v) /\ v > 0))) => rejected
            /\ (call'.op = "s1_pmic_set_vio"
                  /\ (GtIoMax(v) \/ (LtMin(v) /\ v > 0))) => rejected ]_vars

\* C16 witness: s1_pmic_set_vaux was called with a voltage between 0 and
\* 0.8 V on registers with the auxiliary rail on, and was rejected.
C16_Witness ==
    /\ IsCall("s1_pmic_set_vaux")
    /\ call.arg > 0 /\ LtMin(call.arg)
    /\ ret = S1_INVALID_SETTING
    /\ AuxEnabled(regs)

\* C17: a call s1_pmic_set_vaux(v) with 3.46 < v <= 5.5 reads register 0x39
\* exactly once, before any write of the call; the value read is the
\* register's present contents and alone decides the outcome (rejected
\* exactly when its bit 3 is set).  For v <= 3.46 the register is not read.
C17_ModeReadOncePerCall ==
    [][ call'.op = "s1_pmic_set_vaux" =>
          LET v  == call'.arg
              rd == { i \in 1..Len(txlog') : IsPmicRead(txlog'[i]) }
          IN  /\ (GtIoMax(v) /\ ~GtAuxMax(v)) =>
                    /\ rd = {1}
                    /\ txlog'[1] = I2cRead(\h39, regs[\h39])
                    /\ (ret' = S1_INVALID_SETTING) <=> BitSet(txlog'[1].rx[1], 8)
                    /\ (ret' = S1_SUCCESS) <=> ~BitSet(txlog'[1].rx[1], 8)
              /\ ~GtIoMax(v) => rd = {} ]_vars

\* C17 witness: the auxiliary rail is on above 3.46 V from an earlier call
\* that read the mode bit clear, and the present call above 3.46 V read the
\* bit set and was rejected.
C17_Witness ==
    /\ IsCall("s1_pmic_set_vaux")
    /\ GtIoMax(call.arg)
    /\ txlog = <<I2cRead(\h39, \h0E)>>
    /\ ret = S1_INVALID_SETTING
    /\ AuxEnabled(regs) /\ AuxMillivolts(regs) > 3460

BusOps == SelectSeq(txlog, LAMBDA e : ~IsDelay(e))

\* How many transfers of the last call sent the command byte cmd first.
SpiCount(cmd) == Cardinality({ i \in 1..Len(txlog) : IsSpi(txlog[i]) /\ txlog[i].tx[1] = cmd })

\* C15: no operation retries or loops.  Each call issues a fixed number of
\* bus transactions for its outcome and returns: s1_pmic_set_vaux 0 or 1 on
\* an error and 2 or 3 on success, s1_pmic_set_vio 0 or 2,
\* s1_pimc_fpga_vcore 2 or 3, s1_flash_wakeup 4 whether the capacity matches
\* or not (one wake, one reset enable, one reset, one identify),
\* s1_flash_erase_all 2 and s1_flash_is_busy 1.
C15_FixedTransactionCounts ==
    LET n == Len(BusOps)
    IN  /\ IsCall("s1_pmic_set_vaux") =>
              /\ ret = S1_INVALID_SETTING => n = (IF LtMin(call.arg) \/ GtAuxMax(call.arg) THEN 0 ELSE 1)
              /\ ret = S1_SUCCESS => n = (IF GtIoMax(call.arg) THEN 3 ELSE 2)
              /\ ret \in {S1_INVALID_SETTING, S1_SUCCESS}
        /\ IsCall("s1_pmic_set_vio") =>
              /\ ret = S1_INVALID_SETTING => n = 0
              /\ ret = S1_SUCCESS => n = 2
              /\ ret \in {S1_INVALID_SETTING, S1_SUCCESS}
        /\ IsCall("s1_pimc_fpga_vcore") => n = (IF call.arg THEN 2 ELSE 3)
        /\ IsCall("s1_flash_wakeup") =>
              /\ n = 4 /\ Len(txlog) = 6
              /\ SpiCount(\hAB) = 1 /\ SpiCount(\h66) = 1
              /\ SpiCount(\h99) = 1 /\ SpiCount(\h9F) = 1
              /\ txlog[6] = SpiXfer(<<\h9F>>, flash.id)
              /\ ret \in {S1_SUCCESS, S1_FLASH_ERROR}
        /\ IsCall("s1_flash_erase_all") => n = 2
        /\ IsCall("s1_flash_is_busy") => n = 1
        /\ IsCall("s1_fpga_hold_reset") => n = 0

\* C15 witness: s1_flash_wakeup found the wrong capacity and returned
\* S1_FLASH_ERROR after its single identify transfer.
C15_Witness ==
    /\ IsCall("s1_flash_wakeup")
    /\ ret = S1_FLASH_ERROR
    /\ flash.id[4] # \h16
    /\ SpiCount(\h9F) = 1

PowerOps == {"s1_pmic_set_vaux", "s1_pmic_set_vio", "s1_pimc_fpga_vcore"}
FlashOps == {"s1_flash_wakeup", "s1_flash_erase_all", "s1_flash_is_busy"}

\* C20: the power-controller operations issue only I2C transactions to the
\* PMIC; the flash operations issue only SPI transfers (and delays) and leave
\* every PMIC register as it was; s1_pimc_fpga_vcore(true) leaves registers
\* 0x38, 0x39, 0x2D and 0x2E as they were; s1_fpga_hold_reset issues no bus
\* transaction, drives the reset line low, and changes nothing when
\* repeated.
C20_Frame ==
    [][ /\ call'.op \in PowerOps =>
              /\ \A i \in 1..Len(txlog') :
                    txlog'[i].kind = "i2c" /\ txlog'[i].addr = \h48
              /\ flash' = flash /\ fpga_reset' = fpga_reset
        /\ call'.op \in FlashOps =>
              /\ \A i \in 1..Len(txlog') : txlog'[i].kind \in {"spi", "delay"}
              /\ regs' = regs /\ written' = written /\ fpga_reset' = fpga_reset
        /\ (call'.op = "s1_pimc_fpga_vcore" /\ call'.arg) =>
              \A r \in {\h38, \h39, \h2D, \h2E} : regs'[r] = regs[r]
        /\ call'.op = "s1_fpga_hold_reset" =>
              /\ txlog' = <<>>
              /\ fpga_reset' = 0
              /\ regs' = regs /\ flash' = flash
              /\ call.op = "s1_fpga_hold_reset" =>
                    <<regs, flash, fpga_reset>>' = <<regs, flash, fpga_reset>> ]_vars

\* C20 witness: s1_pimc_fpga_vcore(true) ran with the I/O and auxiliary
\* rails on and the FPGA held in reset, and left them so.
C20_Witness ==
    /\ IsCall("s1_pimc_fpga_vcore") /\ call.arg
    /\ CoreEnabled(regs) /\ IoEnabled(regs) /\ AuxEnabled(regs)
    /\ fpga_reset = 0

\* C14: with the flash device following {Asleep, Resetting, Ready, Erasing}:
\* a successful s1_flash_wakeup on an Asleep device leaves it Ready;
\* s1_flash_erase_all on a Ready device leaves it Erasing; s1_flash_is_busy
\* never returns false while the device is Erasing; and, the device
\* finishing its erase and the caller polling on, s1_flash_is_busy
\* eventually returns false with the device Ready.
C14_DeviceStateMachine ==
    /\ [][ /\ (call'.op = "s1_flash_wakeup" /\ flash.state = "Asleep"
                 /\ ret' = S1_SUCCESS) => flash'.state = "Ready"
           /\ (call'.op = "s1_flash_erase_all" /\ flash.state = "Ready")
                 => flash'.state = "Erasing"
           /\ (call'.op = "s1_flash_is_busy" /\ flash'.state = "Erasing")
                 => ret' = "true"
           /\ flash'.state \in DevStates ]_vars
    /\ (flash.state = "Erasing")
          ~> (IsCall("s1_flash_is_busy") /\ ret = "false" /\ flash.state = "Ready")

\* C14 witness: a device found Asleep has been woken, erased and polled
\* until s1_flash_is_busy returned false, and is Ready.
C14_Witness ==
    /\ IsCall("s1_flash_is_busy")
    /\ ret = "false"
    /\ flash.state = "Ready"
    /\ flash.erased
    /\ flash.id[4] = \h16

\* C18: the firmware does no locking.  When the callers serialize their calls,
\* no transaction of another caller ever falls between the two phases of a
\* sequence (reset 0x66 and 0x99, erase 0x06 and 0x60, a voltage-setting
\* write and its control write); when they do not, it can (C18_Witness).
C18_SerializedNoForeignTransaction ==
    conc.serial =>
        /\ conc.hit = {}
        /\ \A t \in Callers : OpenPhases(conc, t) # {} => conc.last = t

\* C18 witness: without serialization, a foreign transaction has fallen into
\* each of the three two-phase sequences, and the erase of caller 1 is
\* right now interrupted by a flash transfer of caller 2.
C18_Witness ==
    /\ ~conc.serial
    /\ conc.hit = {"reset", "erase", "voltage"}
    /\ OpenPhases(conc, 1) = {"erase"}
    /\ conc.last = 2
    /\ txlog = <<SpiXfer(<<\h66>>, <<>>)>>

====
